---- MODULE Spec2Model ----
(***************************************************************************)
(* Model of the Classroom Finder Agent tools:                              *)
(*   - the location tools (validate_address, get_distance,                 *)
(*     sort_classrooms_by_distance)            src/utils/tools/location.py *)
(*   - the classroom query tools               src/utils/tools.py          *)
(*   - the contact router                      src/utils/tools/contacts.py *)
(* Every tool is a request/response operation.  The state records the      *)
(* process configuration, the last invocation, the network requests that   *)
(* invocation issued, the reply it received and the value it returned.     *)
(* classroomData is the classroom store of the agent state                 *)
(* (CustomState.classrooms, src/utils/state.py:9); no tool writes it.      *)
(***************************************************************************)
EXTENDS Integers, Sequences, FiniteSets, TLC

VARIABLES apiKeySet, call, requests, reply, result, classroomData

vars == <<apiKeySet, call, requests, reply, result, classroomData>>

(***************************************************************************)
(* Bounds of the model.                                                    *)
(***************************************************************************)
MaxCands == 3

MaxData == 2

MaxQueryLen == 4

MaxK == 3

\* how many records past the basic tool's display cut a backend list may hold
MaxOver == 1

(***************************************************************************)
(* Generic helpers.                                                        *)
(***************************************************************************)
RECURSIVE SeqsOfLen(_, _)
SeqsOfLen(S, m) ==
    IF m = 0 THEN {<<>>}
    ELSE {Append(s, x) : s \in SeqsOfLen(S, m - 1), x \in S}

SeqsUpTo(S, n) == UNION {SeqsOfLen(S, m) : m \in 0..n}

Min(a, b) == IF a <= b THEN a ELSE b

Max(a, b) == IF a >= b THEN a ELSE b

EmptyMap == [x \in {} |-> 0]

\* Optional[T]: None is the empty tuple, a supplied value v is <<v>>.
None == <<>>

Some(v) == <<v>>

NoCall == [tool |-> "none"]

NoReply == [kind |-> "none"]

\* A text result; an f"...: {e}" error text keeps the exception apart.
Text(t) == [kind |-> "text", text |-> t]

ErrorText(prefix, e) == [kind |-> "error", prefix |-> prefix, exception |-> e]

(***************************************************************************)
(* Location tools.                                                         *)
(***************************************************************************)
DEFAULT_CAMPUS == "Dartmouth College, Hanover, NH"

GeocodeUrl == "https://maps.googleapis.com/maps/api/geocode/json"

DistanceMatrixUrl == "https://maps.googleapis.com/maps/api/distancematrix/json"

KeyNotConfigured == "Error: Google Maps API key not configured"

NothingToSort == "No classrooms to sort."

Modes == {"walking", "driving"}

Origins == {"Baker Library, Hanover NH"}

\* Classroom records handed to the ranker; the last one lacks 'room'.
CandidatePool ==
    { [building |-> "Kemeny", room |-> "008", seatCount |-> 20],
      [building |-> "Silsby", room |-> "113", seatCount |-> 35],
      [building |-> "Carson", seatCount |-> 12] }

CandidateLists == SeqsUpTo(CandidatePool, MaxCands)

Distances == {120, 450}

OkElement(d) ==
    [status |-> "OK",
     distance |-> [value |-> d, text |-> <<d, "m">>],
     duration |-> [text |-> <<d \div 60, "mins">>]]

\* One element of a distance-matrix row: a route, a per-destination failure,
\* or an element claiming OK without its distance.
Elements ==
    {OkElement(d) : d \in Distances}
        \cup {[status |-> "ZERO_RESULTS"], [status |-> "OK"]}

\* What the distance provider can answer: no answer at all, a body without a
\* row, or one row of elements (of any length).
MatrixReplies ==
    {[kind |-> "transport_error"], [kind |-> "json", rows |-> <<>>]}
        \cup {[kind |-> "json", rows |-> <<[elements |-> es]>>] :
                 es \in SeqsUpTo(Elements, MaxCands + 1)}

HasKey(r, k) == k \in DOMAIN r

\* f"{c.get('building', 'Unknown')}, {DEFAULT_CAMPUS}" for each classroom; the
\* "|".join of the request is kept as the sequence of its addresses, and an
\* address as the sequence of its comma-separated parts.
Destinations(classrooms) ==
    [i \in 1..Len(classrooms) |->
        <<IF HasKey(classrooms[i], "building")
            THEN classrooms[i].building ELSE "Unknown", DEFAULT_CAMPUS>>]

\* zip(classrooms, elements): pairs by position, up to the shorter length
Zip(classrooms, elements) ==
    [i \in 1..Min(Len(classrooms), Len(elements)) |->
        [c |-> classrooms[i], e |-> elements[i]]]

\* list.sort(key=...): a stable ascending sort; here over items that carry
\* their sort key in the field "key" and the list element in "val".
RECURSIVE InsertByKey(_, _)
InsertByKey(sorted, x) ==
    IF sorted = <<>> THEN <<x>>
    ELSE IF x.key < sorted[Len(sorted)].key
        THEN Append(InsertByKey(SubSeq(sorted, 1, Len(sorted) - 1), x),
                    sorted[Len(sorted)])
        ELSE Append(sorted, x)

RECURSIVE StableSort(_)
StableSort(s) ==
    IF s = <<>> THEN <<>>
    ELSE InsertByKey(StableSort(SubSeq(s, 1, Len(s) - 1)), s[Len(s)])

Vals(s) == [i \in 1..Len(s) |-> s[i].val]

DistKey(p) == p.e.distance.value

\* an ascending sort that puts equal distances in reverse input order
SortByDistTiesReversed(kept) ==
    LET s == StableSort([i \in 1..Len(kept) |->
                            [key |-> 0 - DistKey(kept[i]), val |-> kept[i]]])
    IN  [i \in 1..Len(s) |-> s[Len(s) + 1 - i].val]

\* results.sort(key=lambda x: x["dist"])
SortByDist(kept) ==
    Vals(StableSort([i \in 1..Len(kept) |->
                        [key |-> DistKey(kept[i]), val |-> kept[i]]]))

WellFormedRecord(c) ==
    HasKey(c, "building") /\ HasKey(c, "room") /\ HasKey(c, "seatCount")

DistanceLine(p, mode) ==
    [building |-> p.c.building, room |-> p.c.room, seatCount |-> p.c.seatCount,
     dist_text |-> p.e.distance.text, time |-> p.e.duration.text,
     mode |-> mode]

\* a formatter that puts the room before the building
RenderRecordSwapped(c) ==
    <<"- ", c.room, " ", c.building, ": ", c.seatCount, " seats">>

\* f"- {c['building']} {c['room']}: {c['seatCount']} seats": the text of a
\* line as the sequence of its literal and substituted parts
RenderRecord(c) ==
    <<"- ", c.building, " ", c.room, ": ", c.seatCount, " seats">>

\* the same line with its distance suffix " ({dist_text}, {time} {mode})"
RenderDistance(p, mode) ==
    RenderRecord(p.c)
        \o <<" (", p.e.distance.text, ", ", p.e.duration.text, " ", mode, ")">>

\* f"Found {n}{tail}\n\n": the header line and the empty line after it
RenderHeader(n, tail) == <<<<"Found ", n, tail>>, <<>>>>

\* SelectPairs that forgets the status test
SelectPairsKeepAll(pairs) == pairs

\* "... for c, e in zip(classrooms, elements) if e["status"] == "OK"
SelectPairs(pairs) ==
    SelectSeq(pairs, LAMBDA p : p.e.status = "OK")

\* The body of sort_classrooms_by_distance's try block, given the reply.
RankResult(classrooms, resp, mode) ==
    IF resp.kind = "transport_error" THEN ErrorText("Error: ", "TransportError")
    ELSE IF resp.rows = <<>> THEN ErrorText("Error: ", "IndexError")
    ELSE
        LET elements == resp.rows[1].elements
            kept == SelectPairs(Zip(classrooms, elements))
            results == SortByDist(kept)
        IN  IF \E i \in 1..Len(kept) : ~HasKey(kept[i].e, "distance")
                THEN ErrorText("Error: ", "KeyError")
            ELSE IF \E i \in 1..Len(results) : ~WellFormedRecord(results[i].c)
                THEN ErrorText("Error: ", "KeyError")
            ELSE [kind |-> "list", title |-> "Found {n} classrooms:",
                  header |-> Len(results),
                  lines |-> [i \in 1..Len(results) |->
                                DistanceLine(results[i], mode)],
                  text |-> RenderHeader(Len(results), " classrooms:")
                             \o [i \in 1..Len(results) |->
                                    RenderDistance(results[i], mode)]]

\* sort_classrooms_by_distance without the test for an empty list
sort_classrooms_no_empty_test(origin, classrooms, mode, resp) ==
    /\ call' = [tool |-> "sort_classrooms_by_distance", origin |-> origin,
                classrooms |-> classrooms, mode |-> mode]
    /\ IF ~apiKeySet
         THEN /\ result' = Text(KeyNotConfigured)
              /\ requests' = <<>>
              /\ reply' = NoReply
         ELSE /\ requests' = <<[url |-> DistanceMatrixUrl,
                                origins |-> origin,
                                destinations |-> Destinations(classrooms),
                                mode |-> mode]>>
              /\ reply' = resp
              /\ result' = RankResult(classrooms, resp, mode)
    /\ UNCHANGED <<apiKeySet, classroomData>>

sort_classrooms_by_distance(origin, classrooms, mode, resp) ==
    /\ call' = [tool |-> "sort_classrooms_by_distance", origin |-> origin,
                classrooms |-> classrooms, mode |-> mode]
    /\ IF ~apiKeySet
         THEN /\ result' = Text(KeyNotConfigured)
              /\ requests' = <<>>
              /\ reply' = NoReply
         ELSE IF classrooms = <<>>
                THEN /\ result' = Text(NothingToSort)
                     /\ requests' = <<>>
                     /\ reply' = NoReply
                ELSE /\ requests' = <<[url |-> DistanceMatrixUrl,
                                       origins |-> origin,
                                       destinations |-> Destinations(classrooms),
                                       mode |-> mode]>>
                     /\ reply' = resp
                     /\ result' = RankResult(classrooms, resp, mode)
    /\ UNCHANGED <<apiKeySet, classroomData>>

SortClassrooms ==
    /\ call = NoCall
    /\ \E origin \in Origins, classrooms \in CandidateLists, mode \in Modes,
          resp \in MatrixReplies :
            sort_classrooms_by_distance(origin, classrooms, mode, resp)

Addresses == {"Baker Library, Hanover NH", "nowhere"}

NoRoute == "Could not find route between locations."

AddressNotFound ==
    "Address not found. Please check spelling or add more details."

GeocodeResult ==
    [formatted_address |-> "Baker-Berry Library, Hanover, NH 03755, USA",
     geometry |-> [location_type |-> "ROOFTOP"]]

\* What the geocoding provider can answer.
GeocodeReplies ==
    { [kind |-> "transport_error"],
      [kind |-> "json"],
      [kind |-> "json", status |-> "ZERO_RESULTS", results |-> <<>>],
      [kind |-> "json", status |-> "OK", results |-> <<>>],
      [kind |-> "json", status |-> "OK", results |-> <<GeocodeResult>>] }

\* The body of validate_address's try block, given the reply.
ValidateResult(address, resp) ==
    IF resp.kind = "transport_error"
        THEN [valid |-> FALSE, error |-> "TransportError"]
    ELSE IF ~HasKey(resp, "status")
        THEN [valid |-> FALSE, error |-> "KeyError"]
    ELSE IF resp.status # "OK" \/ resp.results = <<>>
        THEN [valid |-> FALSE, input |-> address, error |-> AddressNotFound]
    ELSE [valid |-> TRUE, input |-> address,
          formatted_address |-> resp.results[1].formatted_address,
          location_type |-> resp.results[1].geometry.location_type]

\* validate_address without the configuration test
validate_address_unchecked(address, resp) ==
    /\ call' = [tool |-> "validate_address", address |-> address]
    /\ requests' = <<[url |-> GeocodeUrl, address |-> address]>>
    /\ reply' = resp
    /\ result' = ValidateResult(address, resp)
    /\ UNCHANGED <<apiKeySet, classroomData>>

validate_address(address, resp) ==
    /\ call' = [tool |-> "validate_address", address |-> address]
    /\ IF ~apiKeySet
         THEN /\ result' = [valid |-> FALSE,
                            error |-> "Google Maps API key not configured"]
              /\ requests' = <<>>
              /\ reply' = NoReply
         ELSE /\ requests' = <<[url |-> GeocodeUrl, address |-> address]>>
              /\ reply' = resp
              /\ result' = ValidateResult(address, resp)
    /\ UNCHANGED <<apiKeySet, classroomData>>

ValidateAddress ==
    /\ call = NoCall
    /\ \E address \in Addresses, resp \in GeocodeReplies :
            validate_address(address, resp)

\* The body of get_distance's try block, given the reply.
DistanceResult(resp, mode) ==
    IF resp.kind = "transport_error" THEN ErrorText("Error: ", "TransportError")
    ELSE IF resp.rows = <<>> THEN ErrorText("Error: ", "IndexError")
    ELSE IF resp.rows[1].elements = <<>> THEN ErrorText("Error: ", "IndexError")
    ELSE
        LET elem == resp.rows[1].elements[1]
        IN  IF elem.status # "OK" THEN Text(NoRoute)
            ELSE IF ~HasKey(elem, "distance")
                THEN ErrorText("Error: ", "KeyError")
            ELSE [kind |-> "distance", dist_text |-> elem.distance.text,
                  time |-> elem.duration.text, mode |-> mode]

get_distance(origin, destination, mode, resp) ==
    /\ call' = [tool |-> "get_distance", origin |-> origin,
                destination |-> destination, mode |-> mode]
    /\ IF ~apiKeySet
         THEN /\ result' = Text(KeyNotConfigured)
              /\ requests' = <<>>
              /\ reply' = NoReply
         ELSE /\ requests' = <<[url |-> DistanceMatrixUrl, origins |-> origin,
                                destinations |-> <<<<destination>>>>,
                                mode |-> mode]>>
              /\ reply' = resp
              /\ result' = DistanceResult(resp, mode)
    /\ UNCHANGED <<apiKeySet, classroomData>>

GetDistance ==
    /\ call = NoCall
    /\ \E origin \in Origins, destination \in Addresses, mode \in Modes,
          resp \in MatrixReplies :
            get_distance(origin, destination, mode, resp)

(***************************************************************************)
(* Classroom query tools.                                                  *)
(***************************************************************************)
ClassroomsUrl == "{BACKEND_URL}/api/classrooms"

BasicLimit == 50

AmenityLimit == 3

ShownBasic == 10

NoBasicMatch ==
    "No classrooms found matching the basic criteria. Try adjusting the requirements."

NoAmenityMatch ==
    "No classrooms found matching all the specified amenities. Consider relaxing some requirements."

BasicErrorPrefix == "Error querying classrooms: "

AmenityErrorPrefix == "Error querying classrooms with amenities: "

\* class_size: Optional[int]
ClassSizes == {None} \cup {Some(n) : n \in {-20, -3, 0, 1, 3, 6, 20}}

\* department_name: Optional[str]
Departments == {None, Some(""), Some("Economics")}

StringAmenities ==
    {"projection_surface", "computer", "microphone", "zoom_room",
     "teaching_station", "floor_type", "furniture"}

BoolAmenities ==
    {"classroom_capture", "group_learning_screens", "white_board",
     "chalk_board", "dual_board_screen_use", "group_learning_boards",
     "windows", "ac", "film_screening"}

\* every amenity argument left at its default
NoAmenities == [f \in StringAmenities \cup BoolAmenities |-> None]

\* The amenity arguments a call supplies: none, one string (possibly empty),
\* one boolean (possibly False), or all of them.
AmenityArgs ==
    {NoAmenities}
        \cup {[NoAmenities EXCEPT ![f] = Some(v)] :
                 f \in StringAmenities, v \in {"", "Ceiling"}}
        \cup {[NoAmenities EXCEPT ![f] = Some(b)] :
                 f \in BoolAmenities, b \in BOOLEAN}
        \cup {[f \in StringAmenities \cup BoolAmenities |->
                    IF f \in StringAmenities THEN Some("Ceiling") ELSE Some(b)] :
                 b \in BOOLEAN}

\* Records the backend can return; the last one lacks 'seatCount'.
ClassroomPool ==
    { [building |-> "Kemeny", room |-> "008", seatCount |-> 20],
      [building |-> "Silsby", room |-> "113", seatCount |-> 35],
      [building |-> "Carson", room |-> "L01"] }

\* Long 'data' lists, around the number of records the basic tool shows:
\* two well-formed records in alternation, starting with either.
LongLists ==
    {[i \in 1..n |-> IF (i + first) % 2 = 0
                        THEN [building |-> "Kemeny", room |-> "008",
                              seatCount |-> 20]
                        ELSE [building |-> "Silsby", room |-> "113",
                              seatCount |-> 35]] :
        n \in (ShownBasic - 1)..(ShownBasic + MaxOver), first \in 0..1}

\* What the backend can answer: no answer, a non-2xx status, a 2xx body
\* without 'data', or a 2xx body with a 'data' list.
BackendReplies ==
    { [kind |-> "transport_error"],
      [kind |-> "http", status_code |-> 500, body |-> [error |-> "failure"]],
      [kind |-> "http", status_code |-> 200, body |-> [error |-> "failure"]] }
        \cup {[kind |-> "http", status_code |-> 200, body |-> [data |-> d]] :
                 d \in SeqsUpTo(ClassroomPool, MaxData) \cup LongLists}

\* Python truth of an Optional[int] and of an Optional[str]
TruthyInt(x) == x # None /\ x[1] # 0

TruthyStr(x) == x # None /\ x[1] # ""

\* str(b) of a bool, and str.lower() of that
PyStr(b) == IF b THEN "True" ELSE "False"

Lower(t) ==
    CASE t = "True" -> "true"
      [] t = "False" -> "false"
      [] OTHER -> t

\* if flag: params[key] = "true"
FlagParam(key, flag) == IF flag THEN key :> "true" ELSE EmptyMap

\* if class_size: minSeats/maxSeats
SeatParams(class_size) ==
    IF TruthyInt(class_size)
        THEN ("minSeats" :> Max(1, class_size[1] - 5))
                @@ ("maxSeats" :> class_size[1] + 10)
        ELSE EmptyMap

\* if value: params[key] = value
StringParam(key, value) ==
    IF TruthyStr(value) THEN key :> value[1] ELSE EmptyMap

\* BoolParam that tests the truth of the value instead of "is not None"
BoolParamIfTrue(key, value) ==
    IF value # None /\ value[1] THEN key :> Lower(PyStr(value[1])) ELSE EmptyMap

\* if value is not None: params[key] = str(value).lower()
BoolParam(key, value) ==
    IF value # None THEN key :> Lower(PyStr(value[1])) ELSE EmptyMap

\* the params dict of query_classrooms_basic
BasicParams(a) ==
    ("limit" :> BasicLimit)
        @@ FlagParam("seminarSetup", a.seminar_setup)
        @@ FlagParam("lectureSetup", a.lecture_setup)
        @@ FlagParam("groupLearning", a.group_learning)
        @@ SeatParams(a.class_size)

\* params whose limit follows the shape of the intent: the broad cap when no
\* amenity is supplied
AmenityParamsByShape(a) ==
    IF a.amenities = NoAmenities THEN BasicParams(a)
    ELSE ("limit" :> AmenityLimit) @@ BasicParams(a)

\* the params dict of query_classrooms_with_amenities
AmenityParams(a) ==
    ("limit" :> AmenityLimit)
        @@ FlagParam("seminarSetup", a.seminar_setup)
        @@ FlagParam("lectureSetup", a.lecture_setup)
        @@ FlagParam("groupLearning", a.group_learning)
        @@ SeatParams(a.class_size)
        @@ StringParam("projectionSurface", a.amenities.projection_surface)
        @@ StringParam("computer", a.amenities.computer)
        @@ StringParam("microphone", a.amenities.microphone)
        @@ StringParam("zoomRoom", a.amenities.zoom_room)
        @@ BoolParam("classroomCapture", a.amenities.classroom_capture)
        @@ BoolParam("groupLearningScreens", a.amenities.group_learning_screens)
        @@ BoolParam("whiteBoard", a.amenities.white_board)
        @@ BoolParam("chalkBoard", a.amenities.chalk_board)
        @@ BoolParam("dualBoardScreenUse", a.amenities.dual_board_screen_use)
        @@ BoolParam("groupLearningBoards", a.amenities.group_learning_boards)
        @@ StringParam("teachingStation", a.amenities.teaching_station)
        @@ BoolParam("windows", a.amenities.windows)
        @@ BoolParam("ac", a.amenities.ac)
        @@ StringParam("floorType", a.amenities.floor_type)
        @@ StringParam("furniture", a.amenities.furniture)
        @@ BoolParam("filmScreening", a.amenities.film_screening)

ClassroomLine(c) ==
    [building |-> c.building, room |-> c.room, seatCount |-> c.seatCount]

\* data.get("data", [])
DataOf(body) == IF HasKey(body, "data") THEN body.data ELSE <<>>

BasicTool == "query_classrooms_basic"

AmenityTool == "query_classrooms_with_amenities"

ErrorPrefix(tool) ==
    IF tool = BasicTool THEN BasicErrorPrefix ELSE AmenityErrorPrefix

EmptyMessage(tool) == IF tool = BasicTool THEN NoBasicMatch ELSE NoAmenityMatch

Title(tool) ==
    IF tool = BasicTool THEN "Found {n} classrooms:"
    ELSE "Found {n} classroom(s) with your amenities:"

TitleTail(tool) ==
    IF tool = BasicTool THEN " classrooms:"
    ELSE " classroom(s) with your amenities:"

\* the records a tool renders: classrooms[:10] in the basic tool, all in the other
Listed(tool, classrooms) ==
    IF tool = BasicTool
        THEN SubSeq(classrooms, 1, Min(ShownBasic, Len(classrooms)))
        ELSE classrooms

\* What follows the backend call in both query tools: raise_for_status, the
\* 'data' list, the empty message or the rendered list.
QueryResult(tool, resp) ==
    IF resp.kind = "transport_error"
        THEN ErrorText(ErrorPrefix(tool), "TransportError")
    ELSE IF resp.status_code < 200 \/ resp.status_code >= 300
        THEN ErrorText(ErrorPrefix(tool), "HTTPStatusError")
    ELSE
        LET classrooms == DataOf(resp.body)
            listed == Listed(tool, classrooms)
        IN  IF classrooms = <<>> THEN Text(EmptyMessage(tool))
            ELSE IF \E i \in 1..Len(listed) : ~WellFormedRecord(listed[i])
                THEN ErrorText(ErrorPrefix(tool), "KeyError")
            ELSE [kind |-> "list", title |-> Title(tool),
                  header |-> Len(classrooms),
                  lines |-> [i \in 1..Len(listed) |-> ClassroomLine(listed[i])],
                  text |-> RenderHeader(Len(classrooms), TitleTail(tool))
                             \o [i \in 1..Len(listed) |->
                                    RenderRecord(listed[i])]]

query_classrooms_basic(a, resp) ==
    /\ call' = [tool |-> BasicTool, args |-> a]
    /\ requests' = <<[url |-> ClassroomsUrl, params |-> BasicParams(a)]>>
    /\ reply' = resp
    /\ result' = QueryResult(BasicTool, resp)
    /\ UNCHANGED <<apiKeySet, classroomData>>

QueryBasic ==
    /\ call = NoCall
    /\ \E seminar \in BOOLEAN, lecture \in BOOLEAN, group \in BOOLEAN,
          size \in ClassSizes, dept \in Departments, resp \in BackendReplies :
            query_classrooms_basic(
                [seminar_setup |-> seminar, lecture_setup |-> lecture,
                 group_learning |-> group, class_size |-> size,
                 department_name |-> dept], resp)

query_classrooms_with_amenities(a, resp) ==
    /\ call' = [tool |-> AmenityTool, args |-> a]
    /\ requests' = <<[url |-> ClassroomsUrl, params |-> AmenityParams(a)]>>
    /\ reply' = resp
    /\ result' = QueryResult(AmenityTool, resp)
    /\ UNCHANGED <<apiKeySet, classroomData>>

QueryWithAmenities ==
    /\ call = NoCall
    /\ \E seminar \in BOOLEAN, lecture \in BOOLEAN, group \in BOOLEAN,
          size \in ClassSizes, dept \in Departments,
          amenities \in AmenityArgs, resp \in BackendReplies :
            query_classrooms_with_amenities(
                [seminar_setup |-> seminar, lecture_setup |-> lecture,
                 group_learning |-> group, class_size |-> size,
                 department_name |-> dept, amenities |-> amenities], resp)

(***************************************************************************)
(* Contact router.  Strings are sequences of one-character strings.        *)
(***************************************************************************)
Letters == {"a", "c", "v", "A"}

\* Python's \w for these characters: letters, digits and the underscore
WordChars == Letters \cup {"_"}

Chars == WordChars \cup {" "}

Queries == SeqsUpTo(Chars, MaxQueryLen)

MaxContactsArgs == (0 - 2)..MaxK

\* A contact directory in configuration order (name, keywords).
CONTACTS ==
    << [name |-> "Registrar", keywords |-> << <<"A", "v">> >>],
       [name |-> "Classroom Technology Services",
        keywords |-> << <<"a">>, <<"a", "v">> >>],
       [name |-> "Accessibility", keywords |-> << <<"a", "c", "c">> >>],
       [name |-> "ITC", keywords |-> << <<"a", "v">>, <<"c">> >>],
       [name |-> "Transportation", keywords |-> << >>] >>

LowerChar(ch) == IF ch = "A" THEN "a" ELSE ch

\* str.lower()
LowerSeq(t) == [i \in 1..Len(t) |-> LowerChar(t[i])]

IsWordChar(ch) == ch \in WordChars

\* \b after the first p characters of t
Boundary(t, p) ==
    (p >= 1 /\ IsWordChar(t[p])) # (p < Len(t) /\ IsWordChar(t[p + 1]))

\* the literal kw occupies t[i .. i + Len(kw) - 1]
OccursAt(kw, t, i) ==
    /\ i >= 1 /\ i + Len(kw) - 1 <= Len(t)
    /\ SubSeq(t, i, i + Len(kw) - 1) = kw

\* KeywordMatches with \b in front for every keyword and none behind
KeywordMatchesPrefixOnly(keyword, query_lower) ==
    LET kw == LowerSeq(keyword)
    IN  \E i \in 1..Len(query_lower) :
            OccursAt(kw, query_lower, i) /\ Boundary(query_lower, i - 1)

\* re.search(pattern, query_lower), pattern \bkw\b for a keyword of at most
\* two characters and \bkw for a longer one
KeywordMatches(keyword, query_lower) ==
    LET kw == LowerSeq(keyword)
    IN  \E i \in 1..Len(query_lower) :
            /\ OccursAt(kw, query_lower, i)
            /\ Boundary(query_lower, i - 1)
            /\ Len(kw) <= 2 => Boundary(query_lower, i + Len(kw) - 1)

\* the matched_keywords of one contact
MatchedKeywords(contact, query_lower) ==
    SelectSeq(contact.keywords, LAMBDA k : KeywordMatches(k, query_lower))

ContactScore(contact, query_lower) ==
    [contact |-> contact.name,
     score |-> Len(MatchedKeywords(contact, query_lower)),
     matched_keywords |-> MatchedKeywords(contact, query_lower)]

\* contact_scores: one entry per contact with score > 0, in CONTACTS order
ContactScores(query_lower) ==
    SelectSeq([i \in 1..Len(CONTACTS) |-> ContactScore(CONTACTS[i], query_lower)],
              LAMBDA e : e.score > 0)

Reverse(t) == [i \in 1..Len(t) |-> t[Len(t) + 1 - i]]

\* a descending sort that reverses the ascending stable sort
SortByScoreUnstable(entries) ==
    Reverse(Vals(StableSort([i \in 1..Len(entries) |->
                [key |-> entries[i].score, val |-> entries[i]]])))

\* list.sort(key=score, reverse=True): the list is reversed, sorted stably
\* ascending, and reversed again
SortByScore(entries) ==
    Reverse(Vals(StableSort(Reverse([i \in 1..Len(entries) |->
                [key |-> entries[i].score, val |-> entries[i]]]))))

\* t[:k]
SliceTo(t, k) ==
    IF k >= 0 THEN SubSeq(t, 1, Min(k, Len(t)))
    ELSE SubSeq(t, 1, Max(0, Len(t) + k))

find_relevant_contacts(query, max_contacts) ==
    /\ call' = [tool |-> "find_relevant_contacts", query |-> query,
                max_contacts |-> max_contacts]
    /\ requests' = <<>>
    /\ reply' = NoReply
    /\ result' = [kind |-> "contacts",
                  matches |-> SliceTo(SortByScore(ContactScores(LowerSeq(query))),
                                      max_contacts)]
    /\ UNCHANGED <<apiKeySet, classroomData>>

FindContacts ==
    /\ call = NoCall
    /\ \E query \in Queries, max_contacts \in MaxContactsArgs :
            find_relevant_contacts(query, max_contacts)

Init ==
    /\ apiKeySet \in BOOLEAN
    /\ call = NoCall
    /\ requests = <<>>
    /\ reply = NoReply
    /\ result = NoReply
    /\ classroomData = None

\* The orchestrator takes the tool's return value; the tools keep nothing
\* from one invocation to the next.
Deliver ==
    /\ call # NoCall
    /\ call' = NoCall
    /\ requests' = <<>>
    /\ reply' = NoReply
    /\ result' = NoReply
    /\ UNCHANGED <<apiKeySet, classroomData>>

NextLocation == ValidateAddress \/ GetDistance \/ SortClassrooms \/ Deliver

SpecLocation == Init /\ [][NextLocation]_vars

NextQuery == QueryBasic \/ QueryWithAmenities \/ Deliver

SpecQuery == Init /\ [][NextQuery]_vars

NextContacts == FindContacts \/ Deliver

SpecContacts == Init /\ [][NextContacts]_vars

NextTools ==
    \/ ValidateAddress
    \/ GetDistance
    \/ SortClassrooms
    \/ QueryBasic
    \/ QueryWithAmenities
    \/ Deliver

SpecTools == Init /\ [][NextTools]_vars

Next ==
    \/ ValidateAddress
    \/ GetDistance
    \/ SortClassrooms
    \/ QueryBasic
    \/ QueryWithAmenities
    \/ FindContacts
    \/ Deliver

Spec == Init /\ [][Next]_vars

(***************************************************************************)
(* Properties of the distance ranker.                                      *)
(***************************************************************************)
IsRank == call.tool = "sort_classrooms_by_distance"

\* The ranker got as far as a reply that holds one row of elements.
RankRow == IsRank /\ reply.kind = "json" /\ reply.rows # <<>>

RowElements == reply.rows[1].elements

\* The reply is well formed for the call: one element per candidate, every
\* OK element with its distance, every candidate a ClassroomRecord.
AlignedReply ==
    /\ RankRow
    /\ Len(RowElements) = Len(call.classrooms)
    /\ \A i \in 1..Len(RowElements) :
          RowElements[i].status = "OK" => HasKey(RowElements[i], "distance")
    /\ \A i \in 1..Len(call.classrooms) : WellFormedRecord(call.classrooms[i])

\* how many ranked lines show record c at the distance text t
LinesOf(c, t) ==
    Cardinality({j \in 1..Len(result.lines) :
        /\ result.lines[j].building = c.building
        /\ result.lines[j].room = c.room
        /\ result.lines[j].seatCount = c.seatCount
        /\ result.lines[j].dist_text = t})

\* how many candidates equal to c have an OK element with distance text t
OkOf(c, t) ==
    Cardinality({i \in 1..Len(call.classrooms) :
        /\ call.classrooms[i] = c
        /\ RowElements[i].status = "OK"
        /\ RowElements[i].distance.text = t})

OkCount ==
    Cardinality({i \in 1..Len(RowElements) : RowElements[i].status = "OK"})

\* C1: with N candidates and N positionally aligned elements, the ranked
\* output holds exactly the candidates whose element at the same index is
\* OK (each with that element's distance): none with a non-OK element, all
\* with an OK element, and the batch does not fail.
C1_RankKeepsExactlyOk ==
    AlignedReply =>
        /\ result.kind = "list"
        /\ Len(result.lines) = OkCount
        /\ result.header = OkCount
        /\ \A i \in 1..Len(call.classrooms) :
              RowElements[i].status = "OK" =>
                LinesOf(call.classrooms[i], RowElements[i].distance.text)
                    = OkOf(call.classrooms[i], RowElements[i].distance.text)

\* three candidates, exactly one of them with a ZERO_RESULTS element, two ranked
C1_Witness ==
    /\ AlignedReply
    /\ Len(call.classrooms) = 3
    /\ RowElements[2].status = "ZERO_RESULTS"
    /\ RowElements[1].status = "OK" /\ RowElements[3].status = "OK"
    /\ result.kind = "list" /\ Len(result.lines) = 2

\* C2 as stated: an empty candidate list always gives the "nothing to sort"
\* message, with no request, whatever the configuration.
C2_EmptyAlwaysNothingToSort ==
    (IsRank /\ call.classrooms = <<>>) =>
        /\ result = Text(NothingToSort)
        /\ requests = <<>>

\* C2, amended: an empty candidate list never issues a request; it gives the
\* "nothing to sort" message when the geocoding key is configured and the
\* "key not configured" error when it is not.
C2_EmptyNoRequest ==
    (IsRank /\ call.classrooms = <<>>) =>
        /\ requests = <<>>
        /\ reply = NoReply
        /\ result = IF apiKeySet THEN Text(NothingToSort)
                                 ELSE Text(KeyNotConfigured)

C2_Witness ==
    /\ IsRank /\ call.classrooms = <<>> /\ apiKeySet
    /\ result = Text(NothingToSort) /\ requests = <<>>

\* C3: a row whose number of elements differs from the number of candidates
\* is a malformed response, so the ranker returns an error text and no list.
C3_MisalignedRowIsError ==
    (RankRow /\ Len(RowElements) # Len(call.classrooms)) =>
        result.kind = "error"

(***************************************************************************)
(* Properties of the location tools' configuration test.                   *)
(***************************************************************************)
IsLocationCall ==
    call.tool \in {"validate_address", "get_distance",
                   "sort_classrooms_by_distance"}

KeyNotConfiguredResult ==
    IF call.tool = "validate_address"
        THEN [valid |-> FALSE, error |-> "Google Maps API key not configured"]
        ELSE Text(KeyNotConfigured)

\* C4: without a geocoding key every location operation returns its fixed
\* "key not configured" error and issues no network request, for every input.
C4_NoKeyNoRequest ==
    (IsLocationCall /\ ~apiKeySet) =>
        /\ result = KeyNotConfiguredResult
        /\ requests = <<>>
        /\ reply = NoReply

C4_Witness ==
    /\ ~apiKeySet
    /\ call.tool = "validate_address"
    /\ call.address = "nowhere"
    /\ result = [valid |-> FALSE, error |-> "Google Maps API key not configured"]
    /\ requests = <<>>

(***************************************************************************)
(* Properties of the query parameter mapping and of the query results.     *)
(***************************************************************************)
IsQuery == call.tool \in {BasicTool, AmenityTool}

Params == requests[1].params

HasParam(k) == k \in DOMAIN Params

\* C5: classSize expands to minSeats = max(1, classSize - 5) and
\* maxSeats = classSize + 10 exactly when it is present and > 0; when it is
\* absent, 0 or negative neither key appears.
C5_SeatWindowIffPositive ==
    IsQuery =>
        LET size == call.args.class_size
        IN  IF size # None /\ size[1] > 0
                THEN /\ HasParam("minSeats") /\ HasParam("maxSeats")
                     /\ Params["minSeats"] = Max(1, size[1] - 5)
                     /\ Params["maxSeats"] = size[1] + 10
                ELSE ~HasParam("minSeats") /\ ~HasParam("maxSeats")

StyleKeys ==
    { <<"seminar_setup", "seminarSetup">>, <<"lecture_setup", "lectureSetup">>,
      <<"group_learning", "groupLearning">> }

StringAmenityKeys ==
    { <<"projection_surface", "projectionSurface">>, <<"computer", "computer">>,
      <<"microphone", "microphone">>, <<"zoom_room", "zoomRoom">>,
      <<"teaching_station", "teachingStation">>, <<"floor_type", "floorType">>,
      <<"furniture", "furniture">> }

BoolAmenityKeys ==
    { <<"classroom_capture", "classroomCapture">>,
      <<"group_learning_screens", "groupLearningScreens">>,
      <<"white_board", "whiteBoard">>, <<"chalk_board", "chalkBoard">>,
      <<"dual_board_screen_use", "dualBoardScreenUse">>,
      <<"group_learning_boards", "groupLearningBoards">>,
      <<"windows", "windows">>, <<"ac", "ac">>,
      <<"film_screening", "filmScreening">> }

\* C6: a style flag key is present iff the flag is true (value "true"); an
\* amenity string key is present iff the string is non-empty (value
\* verbatim); an amenity boolean key is present iff the field was provided,
\* with value "true" or "false" (an explicit false is the literal "false").
C6_TriStateMapping ==
    IsQuery =>
        /\ \A p \in StyleKeys :
              /\ HasParam(p[2]) <=> call.args[p[1]]
              /\ HasParam(p[2]) => Params[p[2]] = "true"
        /\ call.tool = AmenityTool =>
              /\ \A p \in StringAmenityKeys :
                    LET v == call.args.amenities[p[1]]
                    IN  /\ HasParam(p[2]) <=> (v # None /\ v[1] # "")
                        /\ HasParam(p[2]) => Params[p[2]] = v[1]
              /\ \A p \in BoolAmenityKeys :
                    LET v == call.args.amenities[p[1]]
                    IN  /\ HasParam(p[2]) <=> v # None
                        /\ HasParam(p[2]) =>
                              Params[p[2]] = IF v[1] THEN "true" ELSE "false"

\* an explicit False next to unspecified booleans and an empty string
C6_Witness ==
    /\ call.tool = AmenityTool
    /\ call.args.amenities.white_board = Some(FALSE)
    /\ call.args.amenities.chalk_board = None
    /\ HasParam("whiteBoard") /\ Params["whiteBoard"] = "false"
    /\ ~HasParam("chalkBoard")
    /\ call.args.lecture_setup /\ ~call.args.seminar_setup
    /\ HasParam("lectureSetup") /\ ~HasParam("seminarSetup")

\* C7: a supplied (non-empty) department is sent as the `department` query
\* parameter; otherwise the key is omitted.
C7_DepartmentSent ==
    IsQuery =>
        LET dept == call.args.department_name
        IN  IF dept # None /\ dept[1] # ""
                THEN HasParam("department") /\ Params["department"] = dept[1]
                ELSE ~HasParam("department")

HardFailure ==
    /\ reply.kind = "http"
    /\ \/ reply.status_code < 200 \/ reply.status_code >= 300
       \/ ~HasKey(reply.body, "data")

\* C8: a non-2xx response or a response without `data` makes the tool return
\* its error text, never the empty-result message nor a list; the
\* empty-result message needs `data` present and empty.
C8_MissingDataIsError ==
    IsQuery =>
        /\ HardFailure =>
              /\ result.kind = "error"
              /\ result.prefix = ErrorPrefix(call.tool)
        /\ result = Text(EmptyMessage(call.tool)) =>
              /\ reply.kind = "http"
              /\ reply.status_code >= 200 /\ reply.status_code < 300
              /\ HasKey(reply.body, "data")
              /\ reply.body.data = <<>>

(***************************************************************************)
(* Properties of the contact router.                                       *)
(***************************************************************************)
IsFind == call.tool = "find_relevant_contacts"

Matches == result.matches

\* position of a contact in the configuration
ConfigIndex(name) == CHOOSE i \in 1..Len(CONTACTS) : CONTACTS[i].name = name

\* the contacts that score > 0 for the call's query
Scoring ==
    {i \in 1..Len(CONTACTS) :
        ContactScore(CONTACTS[i], LowerSeq(call.query)).score > 0}

\* entry e comes before the contact at position i in the router's order
RanksBefore(e, i) ==
    LET other == ContactScore(CONTACTS[i], LowerSeq(call.query)).score
    IN  e.score > other \/ (e.score = other /\ ConfigIndex(e.contact) < i)

\* at most k entries, by score descending, ties in configuration order, and
\* they are the first k of all scoring contacts in that order
TopK(k) ==
    /\ Len(Matches) <= k
    /\ Len(Matches) = Min(k, Cardinality(Scoring))
    /\ \A j \in 1..Len(Matches) :
          /\ ConfigIndex(Matches[j].contact) \in Scoring
          /\ Matches[j] =
                ContactScore(CONTACTS[ConfigIndex(Matches[j].contact)],
                             LowerSeq(call.query))
    /\ \A j1, j2 \in 1..Len(Matches) :
          j1 < j2 =>
            /\ Matches[j1].score >= Matches[j2].score
            /\ Matches[j1].score = Matches[j2].score =>
                  ConfigIndex(Matches[j1].contact) < ConfigIndex(Matches[j2].contact)
    /\ \A i \in Scoring :
          (\A j \in 1..Len(Matches) : ConfigIndex(Matches[j].contact) # i) =>
            \A j \in 1..Len(Matches) : RanksBefore(Matches[j], i)

\* C9 as stated: for every integer k the router returns at most k entries,
\* the stable top-k by descending score.
C9_TopKEveryInteger == IsFind => TopK(call.max_contacts)

\* C9, amended: for every query and every integer maxResults = k >= 0 the
\* router returns at most k entries, ordered by score descending with equal
\* scores in configuration order, the top-k of all contacts with score > 0.
C9_TopKNonNegative ==
    (IsFind /\ call.max_contacts >= 0) => TopK(call.max_contacts)

\* three contacts score, two are returned, all tied: configuration order decides
C9_Witness ==
    /\ IsFind /\ call.max_contacts = 2
    /\ Cardinality(Scoring) = 3
    /\ Len(Matches) = 2
    /\ Matches[1].score = Matches[2].score
    /\ ConfigIndex(Matches[1].contact) < ConfigIndex(Matches[2].contact)

\* the words of t: its maximal runs of word characters
WordsOf(t) ==
    {SubSeq(t, i, j) : <<i, j>> \in
        {w \in (1..Len(t)) \X (1..Len(t)) :
            /\ w[1] <= w[2]
            /\ \A p \in w[1]..w[2] : t[p] \in WordChars
            /\ w[1] = 1 \/ t[w[1] - 1] \notin WordChars
            /\ w[2] = Len(t) \/ t[w[2] + 1] \notin WordChars}}

IsPrefix(kw, w) == Len(kw) <= Len(w) /\ SubSeq(w, 1, Len(kw)) = kw

\* the matching rule, on words: a keyword of at most two characters must be
\* a word of the query, a longer one must begin a word of the query
WordRule(keyword, query) ==
    LET kw == LowerSeq(keyword)
        words == WordsOf(LowerSeq(query))
    IN  IF Len(kw) <= 2 THEN kw \in words
        ELSE \E w \in words : IsPrefix(kw, w)

RuleMatched(i) ==
    SelectSeq(CONTACTS[i].keywords, LAMBDA k : WordRule(k, call.query))

\* C10: case-insensitively, a keyword of length <= 2 matches only as a whole
\* word, a keyword of length >= 3 matches exactly when it begins a word
\* (also as the prefix of a longer one); every matching keyword adds 1 to
\* the score and a contact with score 0 is not returned.
C10_KeywordRule ==
    IsFind =>
        /\ \A j \in 1..Len(Matches) :
              LET i == ConfigIndex(Matches[j].contact)
              IN  /\ Matches[j].matched_keywords = RuleMatched(i)
                  /\ Matches[j].score = Len(RuleMatched(i))
                  /\ Matches[j].score > 0
        /\ (call.max_contacts >= 0 /\ Len(Matches) < call.max_contacts) =>
              \A i \in 1..Len(CONTACTS) :
                  RuleMatched(i) # <<>> =>
                      \E j \in 1..Len(Matches) : Matches[j].contact = CONTACTS[i].name

\* "Acca": "acc" begins the word and matches; "a" and "c" occur only inside
\* the word and do not
C10_Witness ==
    /\ IsFind
    /\ call.query = <<"A", "c", "c", "a">>
    /\ call.max_contacts = 2
    /\ Len(Matches) = 1
    /\ Matches[1].contact = "Accessibility"
    /\ Matches[1].matched_keywords = << <<"a", "c", "c">> >>

(***************************************************************************)
(* Properties of the tools' failure handling.                              *)
(***************************************************************************)
\* the invocation reached its upstream service
Answered == reply # NoReply

\* the value can be shown as it is: a text, an error text, a list, a
\* distance, or validate_address's dictionary
Renderable ==
    IF call.tool = "validate_address" THEN HasKey(result, "valid")
    ELSE result.kind \in {"text", "error", "list", "distance"}

\* the upstream answer of the invocation is a failure: no answer, a non-OK
\* status, a malformed body, or a record without a required field
UpstreamFailure ==
    /\ Answered
    /\ \/ reply.kind = "transport_error"
       \/ /\ IsQuery
          /\ \/ HardFailure
             \/ \E i \in 1..Len(DataOf(reply.body)) :
                    ~WellFormedRecord(DataOf(reply.body)[i])
       \/ /\ call.tool \in {"get_distance", "sort_classrooms_by_distance"}
          /\ reply.rows = <<>>
       \/ /\ RankRow
          /\ \/ Len(RowElements) # Len(call.classrooms)
             \/ \E i \in 1..Min(Len(RowElements), Len(call.classrooms)) :
                    /\ RowElements[i].status = "OK"
                    /\ ~HasKey(RowElements[i], "distance")
       \/ /\ call.tool = "get_distance"
          /\ reply.rows # <<>>
          /\ \/ reply.rows[1].elements = <<>>
             \/ reply.rows[1].elements[1].status # "OK"
             \/ ~HasKey(reply.rows[1].elements[1], "distance")
       \/ /\ call.tool = "validate_address"
          /\ \/ ~HasKey(reply, "status")
             \/ reply.status # "OK"
             \/ reply.results = <<>>

\* the value describes an error
ErrorResult ==
    IF call.tool = "validate_address"
        THEN HasKey(result, "error") /\ ~result.valid
        ELSE result.kind = "error" \/ result = Text(NoRoute)

\* C11: every invocation of the five tools ends with a renderable value,
\* never with a raised exception, and every upstream failure (non-OK status,
\* transport error, malformed response, missing field in a record) is
\* returned as a descriptive error result.
C11_FailuresBecomeErrors ==
    (call.tool # "none" /\ call.tool # "find_relevant_contacts") =>
        /\ Renderable
        /\ UpstreamFailure => ErrorResult

\* the part of C11 that the try/except of every tool does give: a
\* renderable value, whatever the upstream answer
ToolsAlwaysRenderable ==
    (call.tool # "none" /\ call.tool # "find_relevant_contacts") => Renderable

(***************************************************************************)
(* The classroom-data store (CustomState.classrooms).                      *)
(***************************************************************************)
\* query_classrooms_basic has returned a list of classrooms
BasicFound == call.tool = BasicTool /\ result.kind = "list"

\* C12: after a query_classrooms_basic call that finds classrooms, the
\* classroom-data store holds the (non-None) list of classroom records of
\* that query, which is what get_classroom_data returns.
C12_QueryStoresClassrooms ==
    BasicFound => classroomData = Some(reply.body.data)

\* what the code does instead: no tool ever writes the store
StoreNeverWritten == classroomData = None

(***************************************************************************)
(* Order of the ranked list.                                               *)
(***************************************************************************)
\* the ranker returned a list for the row it received
Ranked == RankRow /\ result.kind = "list"

\* indices of the retained candidates: paired with an element, element OK
Retained ==
    {i \in 1..Min(Len(call.classrooms), Len(RowElements)) :
        RowElements[i].status = "OK"}

Meters(i) == RowElements[i].distance.value

\* the place of retained candidate i in an ascending order that keeps the
\* input order among equal distances
PlaceOf(i) ==
    1 + Cardinality({j \in Retained :
            \/ Meters(j) < Meters(i)
            \/ Meters(j) = Meters(i) /\ j < i})

\* C13: the list returned by sort_classrooms_by_distance is sorted ascending
\* by distance in metres, two retained candidates with equal distance keep
\* their relative input order, and the output is a permutation of the
\* retained candidates: each retained candidate is the line at its place.
C13_AscendingStablePermutation ==
    Ranked =>
        /\ Len(result.lines) = Cardinality(Retained)
        /\ \A i \in Retained :
              result.lines[PlaceOf(i)] =
                  DistanceLine([c |-> call.classrooms[i], e |-> RowElements[i]],
                               call.mode)

\* three retained candidates, the farthest first in the input and two
\* different candidates at the same distance: the output starts with the
\* two tied ones in input order and ends with the farthest
C13_Witness ==
    /\ Ranked
    /\ Len(call.classrooms) = 3 /\ Retained = {1, 2, 3}
    /\ Meters(1) > Meters(2) /\ Meters(2) = Meters(3)
    /\ call.classrooms[2] # call.classrooms[3]
    /\ result.lines[1].building = call.classrooms[2].building
    /\ result.lines[2].building = call.classrooms[3].building
    /\ result.lines[3].building = call.classrooms[1].building

(***************************************************************************)
(* Rendering of classroom lists.                                           *)
(***************************************************************************)
\* one of the three formatters has rendered a list
Rendered == (IsQuery \/ IsRank) /\ result.kind = "list"

\* the list handed to the formatter: the backend's records in the query
\* tools, the retained candidates in ranked order in the ranker
RankedRecords ==
    [k \in 1..Cardinality(Retained) |->
        call.classrooms[CHOOSE i \in Retained : PlaceOf(i) = k]]

OriginalList == IF IsRank THEN RankedRecords ELSE DataOf(reply.body)

\* the count stated by the header line
HeaderCount == result.text[1][2]

\* the record lines: what follows the header line and the empty line
RecordLines == SubSeq(result.text, 3, Len(result.text))

\* the line has the format "- {building} {room}: {seatCount} seats",
\* possibly followed by a suffix
HasLineFormat(l) ==
    /\ Len(l) >= 7
    /\ l[1] = "- " /\ l[3] = " " /\ l[5] = ": " /\ l[7] = " seats"

\* the building/room/seat triple read back from a line
ParseLine(l) == [building |-> l[2], room |-> l[4], seatCount |-> l[6]]

\* the text is the header stating n and one line per record of recs, in
\* order, from which the records are read back
RendersAs(n, recs) ==
    /\ HeaderCount = n
    /\ Len(RecordLines) = Len(recs)
    /\ \A k \in 1..Len(recs) :
          HasLineFormat(RecordLines[k]) /\ ParseLine(RecordLines[k]) = recs[k]

Shown ==
    IF call.tool = BasicTool
        THEN SubSeq(OriginalList, 1, Min(ShownBasic, Len(OriginalList)))
        ELSE OriginalList

AmenitySupplied ==
    /\ call.tool = AmenityTool
    /\ \E f \in StringAmenities \cup BoolAmenities :
          call.args.amenities[f] # None

\* C15 as stated: every backend query carries `limit`; its value follows
\* the shape of the intent: 50 for a style/size-only intent, whichever
\* operation carries it, and 3 only for an amenity-constrained one.
C15_LimitFollowsIntent ==
    IsQuery =>
        /\ HasParam("limit")
        /\ Params["limit"] \in {BasicLimit, AmenityLimit}
        /\ ~AmenitySupplied => Params["limit"] = BasicLimit
        /\ Params["limit"] = AmenityLimit => AmenitySupplied

\* C15 amended: every backend query carries `limit`, and its value is
\* fixed by the operation: 50 in query_classrooms_basic, 3 in
\* query_classrooms_with_amenities, whatever fields the intent supplies.
C15_LimitFollowsOperation ==
    IsQuery =>
        /\ HasParam("limit")
        /\ Params["limit"] =
              IF call.tool = BasicTool THEN BasicLimit ELSE AmenityLimit

\* the amenities operation called with a style/size-only intent: capped at 3
C15_Witness ==
    /\ call.tool = AmenityTool
    /\ call.args.amenities = NoAmenities
    /\ call.args.seminar_setup
    /\ call.args.class_size # None
    /\ Params["limit"] = AmenityLimit

====
